---- MODULE Spec2Model ----
(***************************************************************************)
(* Dominator Analysis Plugin for Tanto (src/dominator_plugin.py).          *)
(*                                                                         *)
(* The plugin walks dominance relations that Binary Ninja has already      *)
(* computed and builds either a FlowGraph (the interactive slices) or a    *)
(* Mermaid text diagram (the generate_*_mermaid functions).  The model     *)
(* keeps the relations as read-only inputs chosen in Init, and runs one    *)
(* request at a time, loop iteration by loop iteration.                    *)
(***************************************************************************)
EXTENDS Integers, Sequences, FiniteSets, TLC

\* ------------------------------------------------------------------ bounds
\* Largest number of basic blocks of the function.
NumBlocks == 3
\* Largest number of pairs in a set- or list-valued relation
\* (tree children, frontiers).
MaxEdges == 2
\* Largest number of FlowGraph nodes a walk may create before the model stops
\* following it (a walk over a cyclic relation never ends in the code).
MaxNodes == 5
\* Largest number of distinct addresses in variable_blocks.
MaxSeeds == 2

\* ------------------------------------------------------------ basic values
\* Python's None where a block, a node or an address is expected: no address.
None == 0 - 1

\* bb.start of the i-th basic block of the function: 0x100, 0x200, ...
\* A block is identified by its start address.
Start(i) == 256 * i

\* function.basic_blocks of a function with n blocks, in the function's order.
BlockSeq(n) == [i \in 1..n |-> Start(i)]
BlockSet(n) == {Start(i) : i \in 1..n}

\* The address bv.get_function_at answers with the function.
FunctionStart == Start(1)
\* An address where there is neither a function nor a basic block.
UnknownAddress == Start(NumBlocks + 1)

Range(s) == {s[i] : i \in 1..Len(s)}

\* The orders in which a Python set (or any unordered collection) S may be
\* iterated: every enumeration of S without repetition.
Orderings(S) ==
    {s \in [1..Cardinality(S) -> S] : \A i, j \in 1..Cardinality(S) : i # j => s[i] # s[j]}

\* The members of S (a set of addresses) in ascending order.
RECURSIVE Ascending(_)
Ascending(S) ==
    IF S = {} THEN <<>>
    ELSE LET m == CHOOSE x \in S : \A y \in S : x <= y
         IN  <<m>> \o Ascending(S \ {m})

VARIABLES
    \* ---- the analysis snapshot (read-only inputs)
    basic_blocks,                 \* function.basic_blocks
    outgoing_edges,               \* block.outgoing_edges
    immediate_dominator,          \* block.immediate_dominator
    dominator_tree_children,      \* block.dominator_tree_children
    dominance_frontier,           \* block.dominance_frontier
    immediate_post_dominator,     \* block.immediate_post_dominator
    post_dominator_tree_children, \* block.post_dominator_tree_children
    post_dominance_frontier,      \* block.post_dominance_frontier
    \* ---- the request being served
    slice,             \* the slice class or export function that is running
    pc,                \* "idle", "walk" (inside a loop or recursion), "done"
    current_block,     \* tanto.helpers.get_current_il_basic_block()
    current_function,  \* tanto.helpers.get_current_il_function()
    function_address,  \* argument of the generate_*_mermaid functions
    variable_blocks,   \* argument of generate_iterated_dominance_frontier_mermaid
    \* ---- locals of the running request
    flowgraph,         \* the FlowGraph: its nodes and edges in creation order
    current_node,      \* chain walks: index of the node created last
    next_block,        \* chain walks: the block the loop looks at next
    stack,             \* full trees: the call stack of add_children
    blocks,            \* iterated frontier: the seed set, in its iteration order
    frontier,          \* iterated frontier: the set `frontier`
    worklist,          \* iterated frontier: the list `worklist`
    entries,           \* history: how often each block was put on `worklist`
    mermaid_syntax,    \* the returned text, as its sequence of lines
    prev               \* history: result of the previous call with these inputs

inputs == <<basic_blocks, outgoing_edges, immediate_dominator, dominator_tree_children,
            dominance_frontier, immediate_post_dominator, post_dominator_tree_children,
            post_dominance_frontier>>
context == <<current_block, current_function, function_address, variable_blocks>>
chain_locals == <<current_node, next_block>>
idf_locals == <<blocks, frontier, worklist, entries>>
vars == <<inputs, slice, pc, context, flowgraph, chain_locals, stack, idf_locals,
          mermaid_syntax, prev>>

\* ------------------------------------------------------------------ inputs
TheBlocks == Range(basic_blocks)

\* An Option<BlockRef>-valued accessor with no block set, a set-valued accessor
\* with every set empty, a list-valued accessor with every list empty.
NoParent(n) == [b \in BlockSet(n) |-> None]
NoMembers(n) == [b \in BlockSet(n) |-> {}]
NoChildren(n) == [b \in BlockSet(n) |-> <<>>]

\* Every relation on the blocks with at most MaxEdges pairs.
Relations(n) ==
    {E \in SUBSET (BlockSet(n) \X BlockSet(n)) : Cardinality(E) <= MaxEdges}
\* The relation E as a set-valued accessor, and as a list-valued accessor in
\* the engine's order (ascending addresses).
AsSets(E, n) == [b \in BlockSet(n) |-> {c \in BlockSet(n) : <<b, c>> \in E}]
AsLists(E, n) == [b \in BlockSet(n) |-> Ascending({c \in BlockSet(n) : <<b, c>> \in E})]

\* variable_blocks=None, the parameter's default: told apart from every list of
\* addresses.
NoList == <<None>>

\* No earlier call to compare the running one with.
NoPrevious == [called |-> FALSE, mermaid_syntax |-> <<>>, frontier |-> {}]

\* No request has been made yet.
InitRequest ==
    /\ slice = ""
    /\ pc = "idle"
    /\ current_block = None
    /\ current_function = None
    /\ function_address = None
    /\ variable_blocks = NoList
    /\ flowgraph = [nodes |-> <<>>, edges |-> <<>>]
    /\ current_node = 0
    /\ next_block = None
    /\ stack = <<>>
    /\ blocks = <<>>
    /\ frontier = {}
    /\ worklist = <<>>
    /\ entries = [b \in TheBlocks |-> 0]
    /\ mermaid_syntax = <<>>
    /\ prev = NoPrevious

\* ------------------------------------------------------------- the FlowGraph
\* FlowGraph(): no nodes, no edges.
FlowGraph == [nodes |-> <<>>, edges |-> <<>>]

\* DominanceSliceBase.get_block_node: a new node is appended on every call,
\* also for a block that already has one.  The new node's index is the new
\* length of g.nodes.
get_block_node(g, block) ==
    [g EXCEPT !.nodes = Append(@,
        [block |-> block,
         lines |-> IF block # None THEN "disassembly" ELSE "No block found"])]

\* src_node.add_outgoing_edge(BranchType.UnconditionalBranch, dst_node)
add_outgoing_edge(g, src_node, dst_node) ==
    [g EXCEPT !.edges = Append(@, [source |-> src_node, target |-> dst_node])]

\* The index of the node created last.
LastNode(g) == Len(g.nodes)

\* What a request leaves alone besides the locals of its own algorithm.
others_chain == <<inputs, current_function, function_address, variable_blocks, stack,
                  idf_locals, mermaid_syntax, prev>>

\* ------------------------------------------------------------- chain walks
\* DominatorsSlice, line 171: the edge runs from the dominator just found to
\* the node created before it.
\* (Variant: the edge drawn the other way round, as in PostDominatorsSlice.)
DominatorsSlice_edge_reversed(g, next_node, cur_node) ==
    add_outgoing_edge(g, cur_node, next_node)
DominatorsSlice_edge(g, next_node, cur_node) == add_outgoing_edge(g, next_node, cur_node)

\* PostDominatorsSlice, line 149: the edge runs from the node created before
\* to the post dominator just found.
PostDominatorsSlice_edge(g, next_node, cur_node) == add_outgoing_edge(g, cur_node, next_node)

\* StrictDominatorsSlice, line 277.
StrictDominatorsSlice_edge(g, next_node, cur_node) == add_outgoing_edge(g, next_node, cur_node)

\* The while loop is left as soon as next_block is None, and the flowgraph is
\* returned.
AfterStep(nb) == IF nb = None THEN "done" ELSE "walk"

\* DominatorsSlice.get_flowgraph up to the while loop.
DominatorsSlice_get_flowgraph(cb) ==
    /\ pc = "idle"
    /\ slice' = "DominatorsSlice"
    /\ current_block' = cb
    /\ IF cb = None
       THEN /\ flowgraph' = FlowGraph
            /\ pc' = "done"
            /\ UNCHANGED chain_locals
       ELSE /\ flowgraph' = get_block_node(FlowGraph, cb)
            /\ current_node' = 1
            /\ next_block' = immediate_dominator[cb]
            /\ pc' = AfterStep(immediate_dominator[cb])
    /\ UNCHANGED others_chain

\* One iteration of DominatorsSlice's while loop.
DominatorsSlice_loop ==
    /\ pc = "walk"
    /\ slice = "DominatorsSlice"
    /\ Len(flowgraph.nodes) < MaxNodes
    /\ LET g == get_block_node(flowgraph, next_block)
       IN  /\ flowgraph' = DominatorsSlice_edge(g, LastNode(g), current_node)
           /\ current_node' = LastNode(g)
    /\ next_block' = immediate_dominator[next_block]
    /\ pc' = AfterStep(immediate_dominator[next_block])
    /\ UNCHANGED <<slice, current_block, others_chain>>

\* PostDominatorsSlice.get_flowgraph up to the while loop.
PostDominatorsSlice_get_flowgraph(cb) ==
    /\ pc = "idle"
    /\ slice' = "PostDominatorsSlice"
    /\ current_block' = cb
    /\ IF cb = None
       THEN /\ flowgraph' = FlowGraph
            /\ pc' = "done"
            /\ UNCHANGED chain_locals
       ELSE /\ flowgraph' = get_block_node(FlowGraph, cb)
            /\ current_node' = 1
            /\ next_block' = immediate_post_dominator[cb]
            /\ pc' = AfterStep(immediate_post_dominator[cb])
    /\ UNCHANGED others_chain

\* One iteration of PostDominatorsSlice's while loop.
PostDominatorsSlice_loop ==
    /\ pc = "walk"
    /\ slice = "PostDominatorsSlice"
    /\ Len(flowgraph.nodes) < MaxNodes
    /\ LET g == get_block_node(flowgraph, next_block)
       IN  /\ flowgraph' = PostDominatorsSlice_edge(g, LastNode(g), current_node)
           /\ current_node' = LastNode(g)
    /\ next_block' = immediate_post_dominator[next_block]
    /\ pc' = AfterStep(immediate_post_dominator[next_block])
    /\ UNCHANGED <<slice, current_block, others_chain>>

\* StrictDominatorsSlice, lines 266-269: the graph of a block without an
\* immediate dominator is one placeholder node whose text is replaced.
StrictDominatorsSlice_placeholder(g) ==
    LET h == get_block_node(g, None)
    IN  [h EXCEPT !.nodes[LastNode(h)].lines = "No strict dominators"]

\* StrictDominatorsSlice, line 265: the walk skips the current block.
\* (Variant: the walk starts at the current block, as in DominatorsSlice.)
StrictDominatorsSlice_first_not_skipped(cb) == cb
StrictDominatorsSlice_first(cb) == immediate_dominator[cb]

\* StrictDominatorsSlice.get_flowgraph up to the while loop.
StrictDominatorsSlice_get_flowgraph(cb) ==
    /\ pc = "idle"
    /\ slice' = "StrictDominatorsSlice"
    /\ current_block' = cb
    /\ IF cb = None
       THEN /\ flowgraph' = FlowGraph
            /\ pc' = "done"
            /\ UNCHANGED chain_locals
       ELSE LET first == StrictDominatorsSlice_first(cb)
            IN  IF first = None
                THEN /\ flowgraph' = StrictDominatorsSlice_placeholder(FlowGraph)
                     /\ pc' = "done"
                     /\ next_block' = None
                     /\ UNCHANGED current_node
                ELSE /\ flowgraph' = get_block_node(FlowGraph, first)
                     /\ current_node' = 1
                     /\ next_block' = immediate_dominator[first]
                     /\ pc' = AfterStep(immediate_dominator[first])
    /\ UNCHANGED others_chain

\* One iteration of StrictDominatorsSlice's while loop.
StrictDominatorsSlice_loop ==
    /\ pc = "walk"
    /\ slice = "StrictDominatorsSlice"
    /\ Len(flowgraph.nodes) < MaxNodes
    /\ LET g == get_block_node(flowgraph, next_block)
       IN  /\ flowgraph' = StrictDominatorsSlice_edge(g, LastNode(g), current_node)
           /\ current_node' = LastNode(g)
    /\ next_block' = immediate_dominator[next_block]
    /\ pc' = AfterStep(immediate_dominator[next_block])
    /\ UNCHANGED <<slice, current_block, others_chain>>

\* The snapshot the chain views read: a function of 0..NumBlocks blocks with an
\* arbitrary immediate_dominator, or an arbitrary immediate_post_dominator.
InitChain ==
    /\ \E n \in 0..NumBlocks :
        /\ basic_blocks = BlockSeq(n)
        /\ \/ /\ immediate_dominator \in [BlockSet(n) -> BlockSet(n) \cup {None}]
              /\ immediate_post_dominator = NoParent(n)
           \/ /\ immediate_dominator = NoParent(n)
              /\ immediate_post_dominator \in [BlockSet(n) -> BlockSet(n) \cup {None}]
        /\ outgoing_edges = NoMembers(n)
        /\ dominator_tree_children = NoChildren(n)
        /\ dominance_frontier = NoMembers(n)
        /\ post_dominator_tree_children = NoChildren(n)
        /\ post_dominance_frontier = NoMembers(n)
    /\ InitRequest

NextChain ==
    \/ \E cb \in TheBlocks \cup {None} : DominatorsSlice_get_flowgraph(cb)
    \/ DominatorsSlice_loop
    \/ \E cb \in TheBlocks \cup {None} : PostDominatorsSlice_get_flowgraph(cb)
    \/ PostDominatorsSlice_loop
    \/ \E cb \in TheBlocks \cup {None} : StrictDominatorsSlice_get_flowgraph(cb)
    \/ StrictDominatorsSlice_loop

SpecChain == InitChain /\ [][NextChain]_vars

\* ------------------------------------------------- claims on the chain walks
\* The blocks reached from b by following the accessor `parent` until it is
\* None, nearest first (at most `fuel` of them).
RECURSIVE Ancestors(_, _, _)
Ancestors(parent, b, fuel) ==
    IF fuel = 0 \/ parent[b] = None THEN <<>>
    ELSE <<parent[b]>> \o Ancestors(parent, parent[b], fuel - 1)

\* The blocks of the flowgraph's nodes, in creation order.
NodeBlocks == [i \in 1..Len(flowgraph.nodes) |-> flowgraph.nodes[i].block]

Returned(name) == slice = name /\ pc = "done"

\* C1: the dominator-chain view of a block B has exactly one edge per ancestor
\* reached by following immediate_dominator from B until it is None, its nodes
\* are B followed by these ancestors, and its k-th edge leaves the node of the
\* k-th ancestor and enters the node of the block that ancestor immediately
\* dominates on the chain (the node created just before).
C1_DominatorChainEdges ==
    (Returned("DominatorsSlice") /\ current_block # None) =>
        LET up == Ancestors(immediate_dominator, current_block, MaxNodes)
        IN  /\ Len(flowgraph.edges) = Len(up)
            /\ NodeBlocks = <<current_block>> \o up
            /\ \A k \in 1..Len(flowgraph.edges) :
                /\ flowgraph.edges[k] = [source |-> k + 1, target |-> k]
                /\ NodeBlocks[k + 1] = immediate_dominator[NodeBlocks[k]]

\* C1's case: a block with two ancestors, whose view has been returned.
C1_Witness ==
    /\ Returned("DominatorsSlice")
    /\ current_block # None
    /\ Len(Ancestors(immediate_dominator, current_block, MaxNodes)) = 2
    /\ Len(flowgraph.edges) = 2

ChainSlices == {"DominatorsSlice", "PostDominatorsSlice", "StrictDominatorsSlice"}

\* C6 (chain walks): a walk over a relation with a cycle stops with an error as
\* soon as the block it would emit next has been emitted already, so no walk
\* is ever about to go on with a block that already has a node.
C6_WalkStopsOnRevisit ==
    (slice \in ChainSlices /\ pc = "walk") => next_block \notin Range(NodeBlocks)

\* C7: the strict-dominators view of a block B without immediate dominator is
\* one placeholder node (no node of B) and no edge; the view of a block B with
\* an immediate dominator has no node of B and its first node is the one of
\* B's immediate dominator.
C7_StrictDominators ==
    (Returned("StrictDominatorsSlice") /\ current_block # None) =>
        IF immediate_dominator[current_block] = None
        THEN /\ Len(flowgraph.nodes) = 1
             /\ flowgraph.nodes[1].block = None
             /\ flowgraph.nodes[1].lines = "No strict dominators"
             /\ flowgraph.edges = <<>>
        ELSE /\ current_block \notin Range(NodeBlocks)
             /\ NodeBlocks[1] = immediate_dominator[current_block]

\* C7's case: the view of a block without immediate dominator has been
\* returned, in a function where another block has one.
C7_Witness ==
    /\ Returned("StrictDominatorsSlice")
    /\ current_block # None
    /\ immediate_dominator[current_block] = None
    /\ \E b \in TheBlocks : immediate_dominator[b] = current_block
    /\ Len(flowgraph.nodes) = 1

\* --------------------------------------------------------------- full trees
\* What a full-tree request leaves alone.
others_tree == <<inputs, current_block, function_address, variable_blocks, chain_locals,
                 idf_locals, mermaid_syntax, prev>>

\* A call add_children(block, parent_node) that has not looked at a child yet:
\* `child` is the position of its for loop in the children list.
Frame(block, parent_node) == [block |-> block, parent_node |-> parent_node, child |-> 1]

\* The recursive call of add_children (lines 109 and 304) pushes a frame.
\* (Variant: the recursive call left out, as in DominatorTreeChildrenSlice.)
add_children_no_recursion(st, child, child_node) == st
add_children_call(st, child, child_node) == Append(st, Frame(child, child_node))

\* A call whose for loop is exhausted returns to its caller; `children` is the
\* accessor the calls iterate over.
RECURSIVE add_children_return(_, _)
add_children_return(children, st) ==
    IF st = <<>> THEN st
    ELSE IF st[Len(st)].child > Len(children[st[Len(st)].block])
         THEN add_children_return(children, SubSeq(st, 1, Len(st) - 1))
         ELSE st

\* get_flowgraph returns once the outermost add_children has returned.
AfterCall(st) == IF st = <<>> THEN "done" ELSE "walk"

\* One iteration of the for loop of the innermost running add_children: the
\* child's node, the edge parent -> child, and the recursive call, up to the
\* next iteration of a for loop (of this call, of the new one or of a caller).
add_children(children) ==
    /\ pc = "walk"
    /\ Len(flowgraph.nodes) < MaxNodes
    /\ LET top == stack[Len(stack)]
           child == children[top.block][top.child]
           g == get_block_node(flowgraph, child)
           advanced == [stack EXCEPT ![Len(stack)].child = @ + 1]
       IN  /\ flowgraph' = add_outgoing_edge(g, top.parent_node, LastNode(g))
           /\ stack' = add_children_return(children,
                           add_children_call(advanced, child, LastNode(g)))
    /\ pc' = AfterCall(stack')
    /\ UNCHANGED <<slice, current_function, others_tree>>

\* FullDominatorTreeSlice, line 297: the entry block is the root.
FullDominatorTreeSlice_root == basic_blocks[1]

\* FullDominatorTreeSlice.get_flowgraph up to the first iteration inside
\* add_children(root_block, root_node).
FullDominatorTreeSlice_get_flowgraph(fn) ==
    /\ pc = "idle"
    /\ slice' = "FullDominatorTreeSlice"
    /\ current_function' = fn
    /\ IF fn = None \/ Len(basic_blocks) = 0
       THEN /\ flowgraph' = FlowGraph
            /\ stack' = <<>>
       ELSE /\ flowgraph' = get_block_node(FlowGraph, FullDominatorTreeSlice_root)
            /\ stack' = add_children_return(dominator_tree_children,
                            <<Frame(FullDominatorTreeSlice_root, 1)>>)
    /\ pc' = AfterCall(stack')
    /\ UNCHANGED others_tree

FullDominatorTreeSlice_add_children ==
    /\ slice = "FullDominatorTreeSlice"
    /\ add_children(dominator_tree_children)

\* FullPostDominatorTreeSlice, lines 92-95: the blocks without outgoing edges,
\* in the function's block order.
exit_blocks == SelectSeq(basic_blocks, LAMBDA block : outgoing_edges[block] = {})

\* FullPostDominatorTreeSlice, line 101: the first exit block is the root.
\* (Variant: the last exit block taken as the root.)
FullPostDominatorTreeSlice_last_exit == exit_blocks[Len(exit_blocks)]
FullPostDominatorTreeSlice_root == exit_blocks[1]

\* FullPostDominatorTreeSlice.get_flowgraph up to the first iteration inside
\* add_children(root_block, root_node).
FullPostDominatorTreeSlice_get_flowgraph(fn) ==
    /\ pc = "idle"
    /\ slice' = "FullPostDominatorTreeSlice"
    /\ current_function' = fn
    /\ IF fn = None \/ exit_blocks = <<>>
       THEN /\ flowgraph' = FlowGraph
            /\ stack' = <<>>
       ELSE /\ flowgraph' = get_block_node(FlowGraph, FullPostDominatorTreeSlice_root)
            /\ stack' = add_children_return(post_dominator_tree_children,
                            <<Frame(FullPostDominatorTreeSlice_root, 1)>>)
    /\ pc' = AfterCall(stack')
    /\ UNCHANGED others_tree

FullPostDominatorTreeSlice_add_children ==
    /\ slice = "FullPostDominatorTreeSlice"
    /\ add_children(post_dominator_tree_children)

\* The outgoing_edges of a block: none, or one edge (to the entry block).
OutgoingEdges(n) == [BlockSet(n) -> {{}, {Start(1)}}]

\* The snapshot the full-tree views read: an arbitrary dominator_tree_children,
\* or an arbitrary post_dominator_tree_children with arbitrary exit blocks.
InitTree ==
    /\ \E n \in 0..NumBlocks :
        /\ basic_blocks = BlockSeq(n)
        /\ \/ /\ \E E \in Relations(n) : dominator_tree_children = AsLists(E, n)
              /\ post_dominator_tree_children = NoChildren(n)
              /\ outgoing_edges = NoMembers(n)
           \/ /\ dominator_tree_children = NoChildren(n)
              /\ \E E \in Relations(n) : post_dominator_tree_children = AsLists(E, n)
              /\ outgoing_edges \in OutgoingEdges(n)
        /\ immediate_dominator = NoParent(n)
        /\ immediate_post_dominator = NoParent(n)
        /\ dominance_frontier = NoMembers(n)
        /\ post_dominance_frontier = NoMembers(n)
    /\ InitRequest

NextTree ==
    \/ \E fn \in {None, FunctionStart} : FullDominatorTreeSlice_get_flowgraph(fn)
    \/ FullDominatorTreeSlice_add_children
    \/ \E fn \in {None, FunctionStart} : FullPostDominatorTreeSlice_get_flowgraph(fn)
    \/ FullPostDominatorTreeSlice_add_children

SpecTree == InitTree /\ [][NextTree]_vars

\* -------------------------------------------------- claims on the full trees
\* The blocks reachable from the blocks of S through the list-valued accessor
\* `children` in zero or more steps.
RECURSIVE Reachable(_, _)
Reachable(children, S) ==
    LET more == S \cup UNION {Range(children[b]) : b \in S}
    IN  IF more = S THEN S ELSE Reachable(children, more)

\* `children` is a forest: no block is the child of two blocks (or twice of
\* one), and no block is its own descendant.
WellFormedForest(children) ==
    /\ \A b \in TheBlocks :
        Cardinality({p \in TheBlocks : b \in Range(children[p])}) <= 1
    /\ \A b \in TheBlocks :
        /\ b \notin Reachable(children, Range(children[b]))
        /\ \A i, j \in 1..Len(children[b]) : i # j => children[b][i] # children[b][j]

\* C2: when dominator_tree_children is a well-formed forest, the returned full
\* dominator tree has exactly one node for each block reachable from
\* basic_blocks[0], and no block has two nodes.
C2_FullDominatorTreeNodes ==
    (/\ Returned("FullDominatorTreeSlice")
     /\ current_function # None
     /\ basic_blocks # <<>>
     /\ WellFormedForest(dominator_tree_children)) =>
        LET reached == Reachable(dominator_tree_children, {basic_blocks[1]})
        IN  /\ Len(flowgraph.nodes) = Cardinality(reached)
            /\ Range(NodeBlocks) = reached
            /\ \A i, j \in 1..Len(NodeBlocks) : i # j => NodeBlocks[i] # NodeBlocks[j]

\* C2's case: a well-formed forest in which the entry has a grandchild, walked
\* to the end.
C2_Witness ==
    /\ Returned("FullDominatorTreeSlice")
    /\ current_function # None
    /\ basic_blocks # <<>>
    /\ WellFormedForest(dominator_tree_children)
    /\ \E c \in Range(dominator_tree_children[basic_blocks[1]]) :
        dominator_tree_children[c] # <<>>
    /\ Len(flowgraph.nodes) = 3

\* The positions in basic_blocks of the blocks without outgoing edges.
ExitPositions == {i \in 1..Len(basic_blocks) : outgoing_edges[basic_blocks[i]] = {}}

\* C8: the returned full post-dominator tree is empty when no block has an
\* empty outgoing_edges; otherwise its first node is the first block of
\* basic_blocks without outgoing edges and its nodes are exactly the blocks
\* reachable from that block through post_dominator_tree_children, so that a
\* later exit block outside that subtree has no node.
C8_FullPostDominatorTreeRoot ==
    (Returned("FullPostDominatorTreeSlice") /\ current_function # None) =>
        IF ExitPositions = {}
        THEN flowgraph = FlowGraph
        ELSE LET first == CHOOSE i \in ExitPositions : \A j \in ExitPositions : i <= j
                 reached == Reachable(post_dominator_tree_children, {basic_blocks[first]})
             IN  /\ NodeBlocks[1] = basic_blocks[first]
                 /\ Range(NodeBlocks) = reached
                 /\ \A j \in ExitPositions :
                        basic_blocks[j] \notin reached => basic_blocks[j] \notin Range(NodeBlocks)

\* C8's case: two exit blocks, the first with a child, the second outside the
\* first one's subtree and with a child of its own.
C8_Witness ==
    /\ Returned("FullPostDominatorTreeSlice")
    /\ current_function # None
    /\ Cardinality(ExitPositions) = 2
    /\ Len(flowgraph.nodes) = 2
    /\ \E j \in ExitPositions :
        /\ basic_blocks[j] \notin Range(NodeBlocks)
        /\ post_dominator_tree_children[basic_blocks[j]] # <<>>

\* ------------------------------------------------------------ Mermaid text
\* A text is kept as the sequence of its lines (the text is the lines joined
\* by "\n"); a text ending in "\n" has the empty string as last line.

\* hex(): "0x" and the hexadecimal digits, lower case, no leading zeros.
HexDigit(d) ==
    CASE d = 0 -> "0" [] d = 1 -> "1" [] d = 2 -> "2" [] d = 3 -> "3"
      [] d = 4 -> "4" [] d = 5 -> "5" [] d = 6 -> "6" [] d = 7 -> "7"
      [] d = 8 -> "8" [] d = 9 -> "9" [] d = 10 -> "a" [] d = 11 -> "b"
      [] d = 12 -> "c" [] d = 13 -> "d" [] d = 14 -> "e" [] d = 15 -> "f"
RECURSIVE HexDigits(_)
HexDigits(n) == IF n < 16 THEN HexDigit(n) ELSE HexDigits(n \div 16) \o HexDigit(n % 16)
hex(n) == "0x" \o HexDigits(n)

\* mermaid_syntax = "graph TD;\n"
GraphHeader == <<"graph TD;", "">>

\* mermaid_syntax += line + "\n"
AddLine(text, line) ==
    SubSeq(text, 1, Len(text) - 1) \o <<text[Len(text)] \o line, "">>

RECURSIVE AddLines(_, _)
AddLines(text, lines) ==
    IF lines = <<>> THEN text ELSE AddLines(AddLine(text, Head(lines)), Tail(lines))

\* The fence lines.  A TLA+ string cannot hold a backquote: "~~~" stands for
\* the three backquotes of the source.
FenceOpen == "~~~mermaid"
FenceClose == "~~~"

\* return "```mermaid\n" + mermaid_syntax + "\n```"
Fenced(text) == <<FenceOpen>> \o text \o <<FenceClose>>

\* mermaid_syntax = f"No function found at address {hex(function_address)}"
NoFunctionFound(address) == <<"No function found at address " \o hex(address)>>

\* f"BB{hex(bb.start)}(({hex(bb.start)}))"
NodeLine(bb) == "BB" \o hex(bb) \o "((" \o hex(bb) \o "))"
\* f"BB{hex(a.start)} --> BB{hex(b.start)}"
EdgeLine(a, b) == "BB" \o hex(a) \o " --> BB" \o hex(b)
\* f"BB{hex(a.start)} -->|label| BB{hex(b.start)}"
LabelledEdgeLine(a, label, b) == "BB" \o hex(a) \o " -->|" \o label \o "| BB" \o hex(b)
\* f"style BB{hex(block.start)} fill:...,stroke:..."
SeedStyleLine(bb) == "style BB" \o hex(bb) \o " fill:#afa,stroke:#6a6"
FrontierStyleLine(bb) == "style BB" \o hex(bb) \o " fill:#faa,stroke:#a66"

\* bv.get_function_at(function_address): the function, or None.
get_function_at(address) == IF address = FunctionStart THEN FunctionStart ELSE None

\* The "Add all blocks first" loop: one node declaration per basic block.
AllNodeLines == [i \in 1..Len(basic_blocks) |-> NodeLine(basic_blocks[i])]

\* A caller may call a text-export function a second time once its first call
\* has returned; the second call remembers the text the first one returned.
Returned_once(name) == slice = name /\ pc = "done" /\ ~prev.called
Previous == [called |-> TRUE, mermaid_syntax |-> mermaid_syntax, frontier |-> {}]

\* ------------------------------------------------ iterated dominance frontier
\* Lines 330 and 507: of the members of block.dominance_frontier, met in the
\* order `order`, those not yet in `frontier` are new.
\* (Variants: the membership test left out; the seed blocks treated as if
\* they were in `frontier` already.)
worklist_new_unchecked(order, fr) == order
worklist_new_excluding_seeds(order, fr) ==
    SelectSeq(order, LAMBDA df_block : df_block \notin fr /\ df_block \notin Range(blocks))
worklist_new(order, fr) == SelectSeq(order, LAMBDA df_block : df_block \notin fr)

\* Lines 332 and 509: every new member is appended to the worklist.
\* (Variant: the new members not appended, which leaves the one-hop frontier.)
worklist_append_dropped(wl, new) == wl
worklist_append(wl, new) == wl \o new

\* One iteration of `while worklist:` (lines 327-332 and 504-509), with
\* block.dominance_frontier iterated in the order `order`.
worklist_loop(order) ==
    LET new == worklist_new(order, frontier)
    IN  /\ frontier' = frontier \cup Range(new)
        /\ worklist' = worklist_append(Tail(worklist), new)
        /\ entries' = [b \in TheBlocks |->
                          IF b \in Range(new) THEN entries[b] + 1 ELSE entries[b]]
        /\ UNCHANGED blocks

\* worklist = list(blocks), with frontier = set(): seeds is the seed set in its
\* iteration order.
worklist_init(seeds) ==
    /\ blocks' = seeds
    /\ frontier' = {}
    /\ worklist' = seeds
    /\ entries' = [b \in TheBlocks |-> IF b \in Range(seeds) THEN 1 ELSE 0]

\* Lines 335-337: a node for every frontier block, met in the order `shown`,
\* and an edge to it from the current block's node.
RECURSIVE display_frontier(_, _, _)
display_frontier(g, node, shown) ==
    IF shown = <<>> THEN g
    ELSE LET h == get_block_node(g, Head(shown))
         IN  display_frontier(add_outgoing_edge(h, node, LastNode(h)), node, Tail(shown))

others_idf == <<inputs, current_function, function_address, variable_blocks, chain_locals,
                stack, mermaid_syntax, prev>>

\* IteratedDominanceFrontierSlice.get_flowgraph up to the while loop.
IteratedDominanceFrontierSlice_get_flowgraph(cb) ==
    /\ pc = "idle"
    /\ slice' = "IteratedDominanceFrontierSlice"
    /\ current_block' = cb
    /\ IF cb = None
       THEN /\ flowgraph' = FlowGraph
            /\ pc' = "done"
            /\ UNCHANGED idf_locals
       ELSE /\ flowgraph' = get_block_node(FlowGraph, cb)
            /\ worklist_init(<<cb>>)
            /\ pc' = "walk"
    /\ UNCHANGED others_idf

\* One iteration of the slice's while loop; the iteration that empties the
\* worklist goes on to display the frontier and returns.
IteratedDominanceFrontierSlice_loop ==
    /\ pc = "walk"
    /\ slice = "IteratedDominanceFrontierSlice"
    /\ \E order \in Orderings(dominance_frontier[Head(worklist)]) : worklist_loop(order)
    /\ IF worklist' = <<>>
       THEN /\ \E shown \in Orderings(frontier') :
                flowgraph' = display_frontier(flowgraph, 1, shown)
            /\ pc' = "done"
       ELSE UNCHANGED <<flowgraph, pc>>
    /\ UNCHANGED <<slice, current_block, others_idf>>

\* Lines 495-499: the basic blocks whose start is one of the addresses.
variable_block_set(list) ==
    {bb \in TheBlocks : \E i \in 1..Len(list) : bb = list[i]}

\* Lines 512-519: a style line per seed block, then per seed block and per
\* frontier block an IDF edge and the frontier block's style line; the seed set
\* is iterated in the order `seeds` (both times), the frontier in `members`.
idf_lines(seeds, members) ==
    [i \in 1..Len(seeds) |-> SeedStyleLine(seeds[i])]
    \o [k \in 1..(2 * Len(seeds) * Len(members)) |->
          LET block == seeds[((k - 1) \div (2 * Len(members))) + 1]
              frontier_block == members[(((k - 1) % (2 * Len(members))) \div 2) + 1]
          IN  IF k % 2 = 1 THEN LabelledEdgeLine(block, "IDF", frontier_block)
              ELSE FrontierStyleLine(frontier_block)]

others_export == <<inputs, current_block, current_function, flowgraph, chain_locals, stack>>

\* generate_iterated_dominance_frontier_mermaid up to its while loop (or to its
\* return, when the loop is not reached).
iterated_dominance_frontier_mermaid(address, list) ==
    /\ slice' = "generate_iterated_dominance_frontier_mermaid"
    /\ function_address' = address
    /\ variable_blocks' = list
    /\ IF get_function_at(address) = None
       THEN /\ mermaid_syntax' = Fenced(NoFunctionFound(address))
            /\ worklist_init(<<>>)
            /\ pc' = "done"
       ELSE LET text == AddLines(GraphHeader, AllNodeLines)
                addresses == IF list = NoList /\ Len(basic_blocks) > 0
                             THEN <<basic_blocks[1]>> ELSE list
            IN  IF addresses = NoList \/ addresses = <<>>
                THEN /\ mermaid_syntax' = Fenced(text)
                     /\ worklist_init(<<>>)
                     /\ pc' = "done"
                ELSE /\ \E seeds \in Orderings(variable_block_set(addresses)) :
                            worklist_init(seeds)
                     /\ IF worklist' = <<>>
                        THEN /\ mermaid_syntax' = Fenced(text)
                             /\ pc' = "done"
                        ELSE /\ mermaid_syntax' = text
                             /\ pc' = "walk"
    /\ UNCHANGED others_export

\* A first call of generate_iterated_dominance_frontier_mermaid.
generate_iterated_dominance_frontier_mermaid(address, list) ==
    /\ pc = "idle"
    /\ prev' = NoPrevious
    /\ iterated_dominance_frontier_mermaid(address, list)

\* A second call of it on the same function, with the addresses of the frontier
\* the first call computed as variable_blocks; it remembers that frontier.
generate_iterated_dominance_frontier_mermaid_reapplied ==
    /\ Returned_once("generate_iterated_dominance_frontier_mermaid")
    /\ get_function_at(function_address) # None
    /\ prev' = [called |-> TRUE, mermaid_syntax |-> <<>>, frontier |-> frontier]
    /\ iterated_dominance_frontier_mermaid(function_address, Ascending(frontier))

\* One iteration of the export's while loop; the iteration that empties the
\* worklist goes on to the style and edge lines and returns the text.
generate_iterated_dominance_frontier_mermaid_loop ==
    /\ pc = "walk"
    /\ slice = "generate_iterated_dominance_frontier_mermaid"
    /\ \E order \in Orderings(dominance_frontier[Head(worklist)]) : worklist_loop(order)
    /\ IF worklist' = <<>>
       THEN /\ \E members \in Orderings(frontier') :
                mermaid_syntax' = Fenced(AddLines(mermaid_syntax, idf_lines(blocks, members)))
            /\ pc' = "done"
       ELSE UNCHANGED <<mermaid_syntax, pc>>
    /\ UNCHANGED <<slice, function_address, variable_blocks, prev, others_export>>

\* The lists of addresses given as variable_blocks: None, or up to MaxSeeds
\* distinct addresses of blocks or of no block, ascending.
SeedLists ==
    {NoList} \cup
    {Ascending(A) : A \in {B \in SUBSET (TheBlocks \cup {UnknownAddress}) :
                              Cardinality(B) <= MaxSeeds}}

\* The snapshot the iterated frontier reads: an arbitrary dominance_frontier.
InitFrontier ==
    /\ \E n \in 0..NumBlocks :
        /\ basic_blocks = BlockSeq(n)
        /\ \E E \in Relations(n) : dominance_frontier = AsSets(E, n)
        /\ outgoing_edges = NoMembers(n)
        /\ immediate_dominator = NoParent(n)
        /\ immediate_post_dominator = NoParent(n)
        /\ dominator_tree_children = NoChildren(n)
        /\ post_dominator_tree_children = NoChildren(n)
        /\ post_dominance_frontier = NoMembers(n)
    /\ InitRequest

NextFrontier ==
    \/ \E cb \in TheBlocks \cup {None} : IteratedDominanceFrontierSlice_get_flowgraph(cb)
    \/ IteratedDominanceFrontierSlice_loop
    \/ \E address \in {FunctionStart, UnknownAddress} :
         \E list \in SeedLists :
            generate_iterated_dominance_frontier_mermaid(address, list)
    \/ generate_iterated_dominance_frontier_mermaid_loop
    \/ generate_iterated_dominance_frontier_mermaid_reapplied

SpecFrontier == InitFrontier /\ [][NextFrontier]_vars

\* ------------------------------------- claims on the iterated frontier
\* The blocks reachable from the blocks of S through the set-valued accessor
\* `members` in zero or more steps, and in one or more steps.
RECURSIVE Closure(_, _)
Closure(members, S) ==
    LET more == S \cup UNION {members[b] : b \in S}
    IN  IF more = S THEN S ELSE Closure(members, more)
ReachedFrom(members, S) == Closure(members, UNION {members[b] : b \in S})

\* C3: when generate_iterated_dominance_frontier_mermaid is run again with the
\* frontier F of its first run as the seed set, the frontier it computes has no
\* block outside F.
C3_FrontierIdempotent ==
    (Returned("generate_iterated_dominance_frontier_mermaid") /\ prev.called) =>
        /\ Range(blocks) = prev.frontier
        /\ frontier \subseteq prev.frontier

\* C3's case: a second run seeded with a non-empty first frontier, which
\* computes a non-empty frontier that has lost a member of the first.
C3_Witness ==
    /\ Returned("generate_iterated_dominance_frontier_mermaid")
    /\ prev.called
    /\ Range(blocks) = prev.frontier
    /\ frontier # {}
    /\ frontier # prev.frontier

\* C4: the frontier set the worklist computes is exactly the set of blocks
\* reachable from a seed block by one or more steps of dominance_frontier (a
\* seed block is in it only if reached again), for the slice and for the text
\* export; the slice's graph is the current block's node followed by one node
\* per member of the set, each with one edge from the current block's node.
C4_FrontierIsClosure ==
    /\ (Returned("IteratedDominanceFrontierSlice") /\ current_block # None) =>
          /\ frontier = ReachedFrom(dominance_frontier, {current_block})
          /\ NodeBlocks[1] = current_block
          /\ Len(flowgraph.nodes) = Cardinality(frontier) + 1
          /\ {NodeBlocks[k] : k \in 2..Len(NodeBlocks)} = frontier
          /\ Len(flowgraph.edges) = Cardinality(frontier)
          /\ \A k \in 1..Len(flowgraph.edges) :
                flowgraph.edges[k] = [source |-> 1, target |-> k + 1]
    /\ (/\ Returned("generate_iterated_dominance_frontier_mermaid")
        /\ get_function_at(function_address) # None) =>
          frontier = ReachedFrom(dominance_frontier, Range(blocks))

\* C4's case: a current block whose frontier leads back to it, so that the
\* returned set holds the seed and another block.
C4_Witness ==
    /\ Returned("IteratedDominanceFrontierSlice")
    /\ current_block # None
    /\ current_block \in frontier
    /\ Cardinality(frontier) = 2
    /\ Len(flowgraph.edges) = 2

IteratedFrontierRuns ==
    slice \in {"IteratedDominanceFrontierSlice", "generate_iterated_dominance_frontier_mermaid"}

\* How often the initial seeding put b on the worklist.
Seeded(b) == IF b \in Range(blocks) THEN 1 ELSE 0

\* C5 as stated: during a run of the worklist loop every block has entered the
\* worklist at most once, the initial seeding included, and the frontier never
\* exceeds the number of blocks.
C5_EntersAtMostOnce ==
    IteratedFrontierRuns =>
        /\ \A b \in TheBlocks : entries[b] <= 1
        /\ Cardinality(frontier) <= Len(basic_blocks)

\* C5 as amended: the loop appends a block to the worklist at most once, namely
\* when the block joins the frontier, so a block enters the worklist at most
\* twice and only a seed block does so twice (once by the initial seeding,
\* once by joining the frontier); the frontier never exceeds the number of
\* blocks, and no iteration of the loop removes a block from it.
C5_State ==
    IteratedFrontierRuns =>
        /\ \A b \in TheBlocks :
            /\ entries[b] - Seeded(b) = (IF b \in frontier THEN 1 ELSE 0)
            /\ entries[b] <= 2
            /\ entries[b] = 2 => b \in Range(blocks)
        /\ Cardinality(frontier) <= Len(basic_blocks)
C5_Step == (IteratedFrontierRuns /\ pc = "walk") => frontier \subseteq frontier'
C5_EntersAtMostOncePerCause == [](C5_State) /\ [][C5_Step]_vars

\* C5's case: a seed block that joined the frontier and so entered twice, in a
\* run that has returned.
C5_Witness ==
    /\ IteratedFrontierRuns
    /\ pc = "done"
    /\ \E b \in Range(blocks) : entries[b] = 2

\* ------------------------------------------------------------- text exports
\* The lines after the header that a tree export may emit for the first i basic
\* blocks: per block its node declaration and an edge line per tree child, the
\* children in their list order.
RECURSIVE tree_lines(_, _)
tree_lines(children, i) ==
    IF i = 0 THEN <<>>
    ELSE LET bb == basic_blocks[i]
         IN  tree_lines(children, i - 1) \o <<NodeLine(bb)>>
             \o [k \in 1..Len(children[bb]) |-> EdgeLine(bb, children[bb][k])]

\* The edge lines a frontier export may emit for the first i basic blocks: per
\* block one labelled edge per member of its frontier set, the set iterated in
\* any order.
RECURSIVE frontier_lines(_, _, _)
frontier_lines(members, label, i) ==
    IF i = 0 THEN {<<>>}
    ELSE LET bb == basic_blocks[i]
         IN  {before \o [k \in 1..Len(order) |-> LabelledEdgeLine(bb, label, order[k])] :
                 before \in frontier_lines(members, label, i - 1),
                 order \in Orderings(members[bb])}

\* Lines 543-545: an idom edge for every block with an immediate dominator
\* other than itself.
\* (Variant: the test `bb.immediate_dominator != bb` left out.)
RECURSIVE immediate_dominator_lines_with_self_loops(_)
immediate_dominator_lines_with_self_loops(i) ==
    IF i = 0 THEN <<>>
    ELSE LET bb == basic_blocks[i]
         IN  immediate_dominator_lines_with_self_loops(i - 1)
             \o (IF immediate_dominator[bb] # None
                 THEN <<LabelledEdgeLine(immediate_dominator[bb], "idom", bb)>>
                 ELSE <<>>)
RECURSIVE immediate_dominator_lines(_)
immediate_dominator_lines(i) ==
    IF i = 0 THEN <<>>
    ELSE LET bb == basic_blocks[i]
         IN  immediate_dominator_lines(i - 1)
             \o (IF immediate_dominator[bb] # None /\ immediate_dominator[bb] # bb
                 THEN <<LabelledEdgeLine(immediate_dominator[bb], "idom", bb)>>
                 ELSE <<>>)

\* Lines 569-571: an ipdom edge for every block with an immediate post
\* dominator other than itself.
RECURSIVE immediate_post_dominator_lines(_)
immediate_post_dominator_lines(i) ==
    IF i = 0 THEN <<>>
    ELSE LET bb == basic_blocks[i]
         IN  immediate_post_dominator_lines(i - 1)
             \o (IF immediate_post_dominator[bb] # None /\ immediate_post_dominator[bb] # bb
                 THEN <<LabelledEdgeLine(bb, "ipdom", immediate_post_dominator[bb])>>
                 ELSE <<>>)

\* The body shared by the six exports without a loop of their own state: the
\* diagnostic when there is no function at the address, otherwise the header
\* and one of the line sequences `bodies`; in both cases inside the fence.
mermaid(name, address, bodies) ==
    /\ slice' = name
    /\ function_address' = address
    /\ IF get_function_at(address) = None
       THEN mermaid_syntax' = Fenced(NoFunctionFound(address))
       ELSE \E lines \in bodies : mermaid_syntax' = Fenced(AddLines(GraphHeader, lines))
    /\ pc' = "done"
    /\ UNCHANGED <<variable_blocks, idf_locals, others_export>>

post_dominator_mermaid(address) ==
    mermaid("generate_post_dominator_mermaid", address,
            {tree_lines(post_dominator_tree_children, Len(basic_blocks))})

dominator_mermaid(address) ==
    mermaid("generate_dominator_mermaid", address,
            {tree_lines(dominator_tree_children, Len(basic_blocks))})

dominance_frontier_mermaid(address) ==
    mermaid("generate_dominance_frontier_mermaid", address,
            {AllNodeLines \o edges :
                edges \in frontier_lines(dominance_frontier, "frontier", Len(basic_blocks))})

post_dominance_frontier_mermaid(address) ==
    mermaid("generate_post_dominance_frontier_mermaid", address,
            {AllNodeLines \o edges :
                edges \in frontier_lines(post_dominance_frontier, "post frontier",
                                         Len(basic_blocks))})

immediate_dominator_mermaid(address) ==
    mermaid("generate_immediate_dominator_mermaid", address,
            {AllNodeLines \o immediate_dominator_lines(Len(basic_blocks))})

immediate_post_dominator_mermaid(address) ==
    mermaid("generate_immediate_post_dominator_mermaid", address,
            {AllNodeLines \o immediate_post_dominator_lines(Len(basic_blocks))})

\* First calls.
generate_post_dominator_mermaid(address) ==
    pc = "idle" /\ prev' = NoPrevious /\ post_dominator_mermaid(address)
generate_dominator_mermaid(address) ==
    pc = "idle" /\ prev' = NoPrevious /\ dominator_mermaid(address)
generate_dominance_frontier_mermaid(address) ==
    pc = "idle" /\ prev' = NoPrevious /\ dominance_frontier_mermaid(address)
generate_post_dominance_frontier_mermaid(address) ==
    pc = "idle" /\ prev' = NoPrevious /\ post_dominance_frontier_mermaid(address)
generate_immediate_dominator_mermaid(address) ==
    pc = "idle" /\ prev' = NoPrevious /\ immediate_dominator_mermaid(address)
generate_immediate_post_dominator_mermaid(address) ==
    pc = "idle" /\ prev' = NoPrevious /\ immediate_post_dominator_mermaid(address)

\* A second call of the export that has returned, on the same function and with
\* the same arguments.
generate_again ==
    /\ pc = "done"
    /\ ~prev.called
    /\ prev' = Previous
    /\ \/ slice = "generate_post_dominator_mermaid"
          /\ post_dominator_mermaid(function_address)
       \/ slice = "generate_dominator_mermaid"
          /\ dominator_mermaid(function_address)
       \/ slice = "generate_dominance_frontier_mermaid"
          /\ dominance_frontier_mermaid(function_address)
       \/ slice = "generate_post_dominance_frontier_mermaid"
          /\ post_dominance_frontier_mermaid(function_address)
       \/ slice = "generate_immediate_dominator_mermaid"
          /\ immediate_dominator_mermaid(function_address)
       \/ slice = "generate_immediate_post_dominator_mermaid"
          /\ immediate_post_dominator_mermaid(function_address)
       \/ slice = "generate_iterated_dominance_frontier_mermaid"
          /\ iterated_dominance_frontier_mermaid(function_address, variable_blocks)

\* The snapshot the exports read: one of the six accessors arbitrary, the
\* others empty.
InitExport ==
    /\ \E n \in 0..NumBlocks :
        /\ basic_blocks = BlockSeq(n)
        /\ outgoing_edges = NoMembers(n)
        /\ \E which \in 1..6 :
           \E E \in (IF which > 2 THEN Relations(n) ELSE {{}}),
              f \in (IF which <= 2 THEN [BlockSet(n) -> BlockSet(n) \cup {None}]
                     ELSE {NoParent(n)}) :
            /\ immediate_dominator = IF which = 1 THEN f ELSE NoParent(n)
            /\ immediate_post_dominator = IF which = 2 THEN f ELSE NoParent(n)
            /\ dominator_tree_children =
                  IF which = 3 THEN AsLists(E, n) ELSE NoChildren(n)
            /\ post_dominator_tree_children =
                  IF which = 4 THEN AsLists(E, n) ELSE NoChildren(n)
            /\ dominance_frontier = IF which = 5 THEN AsSets(E, n) ELSE NoMembers(n)
            /\ post_dominance_frontier = IF which = 6 THEN AsSets(E, n) ELSE NoMembers(n)
    /\ InitRequest

Addresses == {FunctionStart, UnknownAddress}

NextExport ==
    \/ \E address \in Addresses : generate_post_dominator_mermaid(address)
    \/ \E address \in Addresses : generate_dominator_mermaid(address)
    \/ \E address \in Addresses : generate_dominance_frontier_mermaid(address)
    \/ \E address \in Addresses : generate_post_dominance_frontier_mermaid(address)
    \/ \E address \in Addresses : generate_immediate_dominator_mermaid(address)
    \/ \E address \in Addresses : generate_immediate_post_dominator_mermaid(address)
    \/ \E address \in Addresses : \E list \in SeedLists :
            generate_iterated_dominance_frontier_mermaid(address, list)
    \/ generate_iterated_dominance_frontier_mermaid_loop
    \/ generate_again

SpecExport == InitExport /\ [][NextExport]_vars

\* ------------------------------------------------- claims on the text exports
ExportNames ==
    {"generate_post_dominator_mermaid", "generate_dominator_mermaid",
     "generate_dominance_frontier_mermaid", "generate_post_dominance_frontier_mermaid",
     "generate_immediate_dominator_mermaid", "generate_immediate_post_dominator_mermaid",
     "generate_iterated_dominance_frontier_mermaid"}

\* C9: when no function is found at the requested address, the text an export
\* function returns is the single line "No function found at address 0x<addr>"
\* and nothing else (no fence line, no header, no node, edge or style line).
C9_DiagnosticOnly ==
    (/\ slice \in ExportNames
     /\ pc = "done"
     /\ get_function_at(function_address) = None) =>
        mermaid_syntax = <<"No function found at address " \o hex(function_address)>>

\* C10: two calls of an export function on the same function with the same
\* arguments return the same text.
C10_Deterministic ==
    (slice \in ExportNames /\ pc = "done" /\ prev.called) =>
        mermaid_syntax = prev.mermaid_syntax

\* ------------------------------------------------------------ one-hop views
\* What a one-hop view leaves alone: it has no locals besides the flowgraph.
others_view == <<inputs, current_function, function_address, variable_blocks, chain_locals,
                 stack, idf_locals, mermaid_syntax, prev>>

\* The get_flowgraph shared by the four views that show the current block and
\* its neighbours (lines 65-78, 118-131, 181-194, 200-213): a node for the
\* current block, then per neighbour, met in the order `shown`, a node and an
\* edge to it from the current block's node.
neighbours_get_flowgraph(name, cb, shown) ==
    /\ pc = "idle"
    /\ slice' = name
    /\ current_block' = cb
    /\ flowgraph' = IF cb = None THEN FlowGraph
                    ELSE display_frontier(get_block_node(FlowGraph, cb), 1, shown)
    /\ pc' = "done"
    /\ UNCHANGED others_view

\* The orders in which `for x in current_block.<accessor>` meets the
\* neighbours: the list's order, or any order of the set.
ListOrder(children, cb) == IF cb = None THEN {<<>>} ELSE {children[cb]}
SetOrders(members, cb) == IF cb = None THEN {<<>>} ELSE Orderings(members[cb])

PostDominatorTreeChildrenSlice_get_flowgraph(cb) ==
    \E shown \in ListOrder(post_dominator_tree_children, cb) :
        neighbours_get_flowgraph("PostDominatorTreeChildrenSlice", cb, shown)

PostDominanceFrontierSlice_get_flowgraph(cb) ==
    \E shown \in SetOrders(post_dominance_frontier, cb) :
        neighbours_get_flowgraph("PostDominanceFrontierSlice", cb, shown)

DominanceFrontierSlice_get_flowgraph(cb) ==
    \E shown \in SetOrders(dominance_frontier, cb) :
        neighbours_get_flowgraph("DominanceFrontierSlice", cb, shown)

DominatorTreeChildrenSlice_get_flowgraph(cb) ==
    \E shown \in ListOrder(dominator_tree_children, cb) :
        neighbours_get_flowgraph("DominatorTreeChildrenSlice", cb, shown)

\* ImmediateDominatorSlice, line 230: the edge runs from the immediate
\* dominator's node to the current block's node.
\* (Variant: the edge drawn from the current block's node to itself.)
ImmediateDominatorSlice_edge_to_itself(g, dom_node, cur_node) ==
    add_outgoing_edge(g, cur_node, cur_node)
ImmediateDominatorSlice_edge(g, dom_node, cur_node) ==
    add_outgoing_edge(g, dom_node, cur_node)

\* ImmediatePostDominatorSlice, line 249: the edge runs from the current
\* block's node to the immediate post dominator's node.
ImmediatePostDominatorSlice_edge(g, dom_node, cur_node) ==
    add_outgoing_edge(g, cur_node, dom_node)

\* ImmediateDominatorSlice.get_flowgraph.
ImmediateDominatorSlice_get_flowgraph(cb) ==
    /\ pc = "idle"
    /\ slice' = "ImmediateDominatorSlice"
    /\ current_block' = cb
    /\ flowgraph' =
          IF cb = None THEN FlowGraph
          ELSE LET g == get_block_node(FlowGraph, cb)
               IN  IF immediate_dominator[cb] = None THEN g
                   ELSE LET h == get_block_node(g, immediate_dominator[cb])
                        IN  ImmediateDominatorSlice_edge(h, LastNode(h), 1)
    /\ pc' = "done"
    /\ UNCHANGED others_view

\* ImmediatePostDominatorSlice.get_flowgraph.
ImmediatePostDominatorSlice_get_flowgraph(cb) ==
    /\ pc = "idle"
    /\ slice' = "ImmediatePostDominatorSlice"
    /\ current_block' = cb
    /\ flowgraph' =
          IF cb = None THEN FlowGraph
          ELSE LET g == get_block_node(FlowGraph, cb)
               IN  IF immediate_post_dominator[cb] = None THEN g
                   ELSE LET h == get_block_node(g, immediate_post_dominator[cb])
                        IN  ImmediatePostDominatorSlice_edge(h, LastNode(h), 1)
    /\ pc' = "done"
    /\ UNCHANGED others_view

\* ---------------------------------------------------- all interactive views
\* The snapshot the views read: one of the six accessors arbitrary and the
\* others empty; with post_dominator_tree_children, arbitrary exit blocks.
InitViews ==
    /\ \E n \in 0..NumBlocks :
        /\ basic_blocks = BlockSeq(n)
        /\ \E which \in 1..6 :
           \E E \in (IF which > 2 THEN Relations(n) ELSE {{}}),
              f \in (IF which <= 2 THEN [BlockSet(n) -> BlockSet(n) \cup {None}]
                     ELSE {NoParent(n)}),
              out \in (IF which = 4 THEN OutgoingEdges(n) ELSE {NoMembers(n)}) :
            /\ outgoing_edges = out
            /\ immediate_dominator = IF which = 1 THEN f ELSE NoParent(n)
            /\ immediate_post_dominator = IF which = 2 THEN f ELSE NoParent(n)
            /\ dominator_tree_children =
                  IF which = 3 THEN AsLists(E, n) ELSE NoChildren(n)
            /\ post_dominator_tree_children =
                  IF which = 4 THEN AsLists(E, n) ELSE NoChildren(n)
            /\ dominance_frontier = IF which = 5 THEN AsSets(E, n) ELSE NoMembers(n)
            /\ post_dominance_frontier = IF which = 6 THEN AsSets(E, n) ELSE NoMembers(n)
    /\ InitRequest

\* The block, or the function, the view is opened on.
CurrentBlocks == TheBlocks \cup {None}
CurrentFunctions == {None, FunctionStart}

NextViews ==
    \/ \E cb \in CurrentBlocks : PostDominatorTreeChildrenSlice_get_flowgraph(cb)
    \/ \E fn \in CurrentFunctions : FullPostDominatorTreeSlice_get_flowgraph(fn)
    \/ FullPostDominatorTreeSlice_add_children
    \/ \E cb \in CurrentBlocks : PostDominanceFrontierSlice_get_flowgraph(cb)
    \/ \E cb \in CurrentBlocks : PostDominatorsSlice_get_flowgraph(cb)
    \/ PostDominatorsSlice_loop
    \/ \E cb \in CurrentBlocks : DominatorsSlice_get_flowgraph(cb)
    \/ DominatorsSlice_loop
    \/ \E cb \in CurrentBlocks : DominanceFrontierSlice_get_flowgraph(cb)
    \/ \E cb \in CurrentBlocks : DominatorTreeChildrenSlice_get_flowgraph(cb)
    \/ \E cb \in CurrentBlocks : ImmediateDominatorSlice_get_flowgraph(cb)
    \/ \E cb \in CurrentBlocks : ImmediatePostDominatorSlice_get_flowgraph(cb)
    \/ \E cb \in CurrentBlocks : StrictDominatorsSlice_get_flowgraph(cb)
    \/ StrictDominatorsSlice_loop
    \/ \E fn \in CurrentFunctions : FullDominatorTreeSlice_get_flowgraph(fn)
    \/ FullDominatorTreeSlice_add_children
    \/ \E cb \in CurrentBlocks : IteratedDominanceFrontierSlice_get_flowgraph(cb)
    \/ IteratedDominanceFrontierSlice_loop

SpecViews == InitViews /\ [][NextViews]_vars

\* ------------------------------------------- claims on the interactive views
ViewNames ==
    {"PostDominatorTreeChildrenSlice", "FullPostDominatorTreeSlice",
     "PostDominanceFrontierSlice", "PostDominatorsSlice", "DominatorsSlice",
     "DominanceFrontierSlice", "DominatorTreeChildrenSlice", "ImmediateDominatorSlice",
     "ImmediatePostDominatorSlice", "StrictDominatorsSlice", "FullDominatorTreeSlice",
     "IteratedDominanceFrontierSlice"}

\* Edge k of g joins node k + 1, the node created with it, and a node created
\* earlier.
JoinsNewNode(g, k) ==
    LET edge == g.edges[k]
    IN  \/ edge.source = k + 1 /\ edge.target \in 1..k
        \/ edge.target = k + 1 /\ edge.source \in 1..k

\* C11: the graph of every interactive view, on return and after every
\* iteration of its walk, is empty or has exactly one more node than edges:
\* the first node has no edge, and node k + 1 comes with edge k, which joins
\* it and a node created earlier.
C11_OneEdgePerLaterNode ==
    slice \in ViewNames =>
        \/ flowgraph = FlowGraph
        \/ /\ Len(flowgraph.nodes) = Len(flowgraph.edges) + 1
           /\ \A k \in 1..Len(flowgraph.edges) : JoinsNewNode(flowgraph, k)

\* A returned full dominator tree of three nodes whose second edge does not
\* start at the root's node.
C11_Witness ==
    /\ Returned("FullDominatorTreeSlice")
    /\ Len(flowgraph.nodes) = 3
    /\ flowgraph.edges[2] = [source |-> 2, target |-> 3]

\* -------------------------------------------- the immediate-dominator maps
\* The two map exports alone, on the snapshots of the chain views: an arbitrary
\* immediate_dominator, or an arbitrary immediate_post_dominator.
NextMaps ==
    \/ \E address \in Addresses : generate_immediate_dominator_mermaid(address)
    \/ \E address \in Addresses : generate_immediate_post_dominator_mermaid(address)

SpecMaps == InitChain /\ [][NextMaps]_vars

\* ------------------------------------- claims on the immediate-dominator maps
\* The labels the exports put on edges.
EdgeLabels == {"frontier", "post frontier", "IDF", "idom", "ipdom"}

\* Every line that is an edge statement between basic blocks of the function.
EdgeStatements ==
    {EdgeLine(a, b) : a, b \in TheBlocks}
    \cup {LabelledEdgeLine(a, label, b) : a, b \in TheBlocks, label \in EdgeLabels}

\* The edge statements of the returned text, in the order of the text.
EmittedEdges ==
    LET statements == EdgeStatements
    IN  SelectSeq(mermaid_syntax, LAMBDA line : line \in statements)

\* How many of the edge statements `edges` are one of `lines`.
Emitted(edges, lines) == Cardinality({i \in 1..Len(edges) : edges[i] \in lines})

\* The edge statements that enter, and that leave, the block bb.
EdgesInto(bb) ==
    {EdgeLine(a, bb) : a \in TheBlocks}
    \cup {LabelledEdgeLine(a, label, bb) : a \in TheBlocks, label \in EdgeLabels}
EdgesFrom(bb) ==
    {EdgeLine(bb, a) : a \in TheBlocks}
    \cup {LabelledEdgeLine(bb, label, a) : a \in TheBlocks, label \in EdgeLabels}

\* The blocks that have an immediate (post) dominator other than themselves.
WithOther(parent) == {bb \in TheBlocks : parent[bb] # None /\ parent[bb] # bb}

\* C12: the immediate-dominator map has no edge statement for a block whose
\* immediate_dominator is None or the block itself, and for every other block
\* exactly one, dominator -> block with label idom; the immediate-post-dominator
\* map likewise with immediate_post_dominator, block -> post dominator with
\* label ipdom.  So neither has a self-loop, and the number of edge statements
\* is the number of blocks with an immediate (post) dominator other than
\* themselves.
C12_NoSelfLoopEdge ==
    LET edges == EmittedEdges
    IN  /\ (/\ Returned("generate_immediate_dominator_mermaid")
            /\ get_function_at(function_address) # None) =>
               /\ \A bb \in TheBlocks :
                    /\ Emitted(edges, EdgesInto(bb)) =
                          IF bb \in WithOther(immediate_dominator) THEN 1 ELSE 0
                    /\ bb \in WithOther(immediate_dominator) =>
                          Emitted(edges,
                                  {LabelledEdgeLine(immediate_dominator[bb], "idom", bb)}) = 1
                    /\ Emitted(edges, EdgesInto(bb) \cap EdgesFrom(bb)) = 0
               /\ Len(edges) = Cardinality(WithOther(immediate_dominator))
        /\ (/\ Returned("generate_immediate_post_dominator_mermaid")
            /\ get_function_at(function_address) # None) =>
               /\ \A bb \in TheBlocks :
                    /\ Emitted(edges, EdgesFrom(bb)) =
                          IF bb \in WithOther(immediate_post_dominator) THEN 1 ELSE 0
                    /\ bb \in WithOther(immediate_post_dominator) =>
                          Emitted(edges,
                                  {LabelledEdgeLine(bb, "ipdom",
                                                    immediate_post_dominator[bb])}) = 1
                    /\ Emitted(edges, EdgesInto(bb) \cap EdgesFrom(bb)) = 0
               /\ Len(edges) = Cardinality(WithOther(immediate_post_dominator))

\* A returned immediate-dominator map of a function with a block that is its
\* own immediate dominator, a block without one, and a block with another
\* block as immediate dominator.
C12_Witness ==
    /\ Returned("generate_immediate_dominator_mermaid")
    /\ get_function_at(function_address) # None
    /\ \E a, b, c \in TheBlocks :
        /\ immediate_dominator[a] = a
        /\ immediate_dominator[b] = None
        /\ immediate_dominator[c] \notin {None, c}
    /\ Len(EmittedEdges) >= 1
====
